---- MODULE Spec2Model ----
(***************************************************************************)
(* Model of the Bulk_updater front-end: the session store (AuthContext),   *)
(* the protected route (app.tsx), the login / MFA flow (login.tsx) and the *)
(* operation form of the main page (main_page.tsx).                        *)
(*                                                                         *)
(* Two specifications share the module.  SpecAuth runs the session store,  *)
(* the route and the login flow; SpecForm runs one browser tab's main page *)
(* form.  Each leaves the other group of variables untouched.              *)
(***************************************************************************)
EXTENDS Integers, FiniteSets, Sequences, TLC

\* ------------------------------------------------------------------ bounds
MaxReqs == 3          \* auth requests in flight at the same time
MaxSubs == 2
MaxLogs == 3          \* form submissions in flight (stale ones included)

\* ------------------------------------------------------------- value sets
Null == "null"                        \* JS null
Undefined == "undefined"              \* JS undefined (an omitted argument)
Users == {"alice", "bob"}             \* usernames typed or returned
Passwords == {"pw"}                   \* passwords typed
MfaCodes == {"", "123456"}            \* codes handed over by the MFA popup
Details == {"", "Invalid credentials"}\* data.detail of an error response

\* JS truthiness of a string-or-undefined value
Truthy(x) == x \notin {"", Undefined, Null}

\* a || b on strings
OrElse(a, b) == IF Truthy(a) THEN a ELSE b

VARIABLES
    \* ---- AuthProvider (AuthContext.tsx)
    isAuthenticated, username,
    \* ---- router / ProtectedRoute (app.tsx)
    route, isValidating, mainPageShown,
    \* ---- Login (login.tsx)
    formUsername, password, error, showMFA,
    \* ---- auth requests in flight, last handler that ran
    reqs, last,
    \* ---- MainPage (main_page.tsx)
    mounted, operation, file, imeis, useDirectInput, profileId, tags,
    thingKey, result, isLoading,
    \* ---- MainPage log stream: logs, error (useState), open EventSource
    \* ---- objects, last log event
    logs, logError, streams, lastLog,
    \* ---- form submissions in flight, last form event
    subs, lastForm

authVars == <<isAuthenticated, username, route, isValidating, mainPageShown,
              formUsername, password, error, showMFA, reqs, last>>
formVars == <<mounted, operation, file, imeis, useDirectInput, profileId,
              tags, thingKey, result, isLoading, subs, lastForm>>
logVars == <<logs, logError, streams, lastLog>>
vars == <<authVars, formVars, logVars>>

\* =========================================================================
\*  Session store, protected route and login flow
\* =========================================================================

\* ---- responses the backend (or the network) can give ---------------------
\* type: "ok" (2xx, JSON body), "status" (non-2xx, JSON body),
\*       "badjson" (body is not JSON), "reject" (fetch rejected)
Resp(t, mfa, u, d) == [type |-> t, requireMFA |-> mfa, username |-> u, detail |-> d]

ValidateResponses ==
    {Resp("ok", FALSE, u, "") : u \in Users}
      \cup {Resp("status", FALSE, Null, ""), Resp("badjson", FALSE, Null, ""),
            Resp("reject", FALSE, Null, "")}

LoginResponses ==
    {Resp("ok", FALSE, u, "") : u \in Users}
      \cup {Resp("ok", TRUE, Null, "")}
      \cup {Resp("status", FALSE, Null, d) : d \in Details}
      \cup {Resp("badjson", FALSE, Null, ""), Resp("reject", FALSE, Null, "")}

LogoutResponses ==
    {Resp("ok", FALSE, Null, ""), Resp("status", FALSE, Null, ""),
     Resp("reject", FALSE, Null, "")}

\* message of the exception fetch / response.json() raises
ThrownMessage(resp) ==
    CASE resp.type = "reject"  -> "Failed to fetch"
      [] resp.type = "badjson" -> "Unexpected token in JSON"
      [] OTHER                 -> ""

\* ---- AuthProvider.validateSession / checkAuth ---------------------------
\* the store after the response of GET /auth/validate has been handled
validateSession_keepsUsername(resp, isA, un) ==
    IF resp.type = "ok"
    THEN [isAuthenticated |-> TRUE, username |-> resp.username]
    ELSE [isAuthenticated |-> FALSE, username |-> un]

validateSession(resp, isA, un) ==
    IF resp.type = "ok"
    THEN [isAuthenticated |-> TRUE, username |-> resp.username]
    ELSE [isAuthenticated |-> FALSE, username |-> Null]

checkAuth(resp, isA, un) ==
    IF resp.type = "ok"
    THEN [isAuthenticated |-> TRUE, username |-> resp.username]
    ELSE [isAuthenticated |-> FALSE, username |-> Null]

\* ---- AuthProvider.login -------------------------------------------------
loginEndpoint(mfaCode) == IF Truthy(mfaCode) THEN "/auth/mfa" ELSE "/auth/token"

loginBody(u, p, mfaCode) ==
    IF Truthy(mfaCode)
    THEN [username |-> u, mfa_code |-> mfaCode]
    ELSE [username |-> u, password |-> p]

\* the store after the response has been handled, and what login() gives its
\* caller: a value {requireMFA} or a thrown error with a message
login_setsOnMFA(resp, isA, un) ==
    CASE resp.type = "ok" ->
            [isAuthenticated |-> TRUE, username |-> resp.username,
             thrown |-> FALSE, requireMFA |-> resp.requireMFA, message |-> ""]
      [] resp.type = "status" ->
            [isAuthenticated |-> FALSE, username |-> Null, thrown |-> TRUE,
             requireMFA |-> FALSE, message |-> OrElse(resp.detail, "Login failed")]
      [] OTHER ->
            [isAuthenticated |-> FALSE, username |-> Null, thrown |-> TRUE,
             requireMFA |-> FALSE, message |-> ThrownMessage(resp)]

login_keepsStale(resp, isA, un) ==
    CASE resp.type = "ok" /\ ~resp.requireMFA ->
            [isAuthenticated |-> TRUE, username |-> resp.username,
             thrown |-> FALSE, requireMFA |-> FALSE, message |-> ""]
      [] resp.type = "ok" /\ resp.requireMFA ->
            [isAuthenticated |-> isA, username |-> un,
             thrown |-> FALSE, requireMFA |-> TRUE, message |-> ""]
      [] resp.type = "status" ->
            [isAuthenticated |-> isA, username |-> un, thrown |-> TRUE,
             requireMFA |-> FALSE, message |-> OrElse(resp.detail, "Login failed")]
      [] OTHER ->
            [isAuthenticated |-> isA, username |-> un, thrown |-> TRUE,
             requireMFA |-> FALSE, message |-> ThrownMessage(resp)]

login(resp, isA, un) ==
    CASE resp.type = "ok" /\ ~resp.requireMFA ->
            [isAuthenticated |-> TRUE, username |-> resp.username,
             thrown |-> FALSE, requireMFA |-> FALSE, message |-> ""]
      [] resp.type = "ok" /\ resp.requireMFA ->
            [isAuthenticated |-> isA, username |-> un,
             thrown |-> FALSE, requireMFA |-> TRUE, message |-> ""]
      [] resp.type = "status" ->
            [isAuthenticated |-> FALSE, username |-> Null, thrown |-> TRUE,
             requireMFA |-> FALSE, message |-> OrElse(resp.detail, "Login failed")]
      [] OTHER ->
            [isAuthenticated |-> FALSE, username |-> Null, thrown |-> TRUE,
             requireMFA |-> FALSE, message |-> ThrownMessage(resp)]

\* ---- AuthProvider.logout ------------------------------------------------
\* the catch around the fetch swallows a rejection; the store is cleared after
logout_noCatch(resp, isA, un) ==
    IF resp.type = "reject"
    THEN [isAuthenticated |-> isA, username |-> un, thrown |-> TRUE]
    ELSE [isAuthenticated |-> FALSE, username |-> Null, thrown |-> FALSE]

logout(resp, isA, un) ==
    [isAuthenticated |-> FALSE, username |-> Null, thrown |-> FALSE]

\* ---- ProtectedRoute.checkSession --------------------------------------------
checkSession_onlyOnSuccess(resp, isV) ==
    IF resp.type = "ok" THEN FALSE ELSE isV

\* isValidating once `await validateSession()` has returned: validateSession
\* catches every failure, so setIsValidating(false) runs for every response
checkSession(resp, isV) == FALSE

\* ---- ProtectedRoute render ----------------------------------------------
ProtectedRouteView_noWait(isV, isA) ==
    IF ~isA THEN "navigate" ELSE "children"

ProtectedRouteView(isV, isA) ==
    IF isV THEN "loading"
    ELSE IF ~isA THEN "navigate"
    ELSE "children"

\* ---- Login handlers: what runs after login() has returned or thrown ------
DefaultError == "An error occurred. Please try again."
MFAFailed == "MFA authentication failed. Please try again."

\* r is the value of login(); sm, err the Login state before
handleSubmit(r, sm, err) ==
    IF r.thrown
    THEN [showMFA |-> sm, error |-> OrElse(r.message, DefaultError), navigate |-> FALSE]
    ELSE IF r.requireMFA
    THEN [showMFA |-> TRUE, error |-> err, navigate |-> FALSE]
    ELSE [showMFA |-> sm, error |-> err, navigate |-> TRUE]

handleMFASubmit(r, sm, err) ==
    IF r.thrown
    THEN [showMFA |-> sm, error |-> OrElse(r.message, DefaultError), navigate |-> FALSE]
    ELSE IF ~r.requireMFA
    THEN [showMFA |-> FALSE, error |-> err, navigate |-> TRUE]
    ELSE [showMFA |-> sm, error |-> MFAFailed, navigate |-> FALSE]

\* ---- requests in flight --------------------------------------------------
\* reqs[<<f, live>>] is the number of requests in flight whose response the
\* function f awaits; live: the component instance that runs f is still
\* mounted (AuthProvider is never unmounted).
ReqFroms == {"validateSession", "checkAuth", "checkSession",
             "handleSubmit", "handleMFASubmit", "logout"}
ReqKeys == ReqFroms \X BOOLEAN
NoReqs == [k \in ReqKeys |-> 0]

RECURSIVE SumOver(_, _)
SumOver(rq, ks) ==
    IF ks = {} THEN 0
    ELSE LET k == CHOOSE x \in ks : TRUE IN rq[k] + SumOver(rq, ks \ {k})
InFlight(rq) == SumOver(rq, ReqKeys)

Add(rq, f) == [rq EXCEPT ![<<f, TRUE>>] = @ + 1]
Remove(rq, f, live) == [rq EXCEPT ![<<f, live>>] = @ - 1]
Stale(rq, froms) ==
    [k \in ReqKeys |->
        IF k[1] \in froms
        THEN IF k[2] THEN 0 ELSE rq[k] + rq[<<k[1], TRUE>>]
        ELSE rq[k]]

LoginHandlers == {"handleSubmit", "handleMFASubmit"}

\* ---- render + effects after a state change -------------------------------
\* s: the state the handler left (route, store, ProtectedRoute and Login
\* state, requests); Commit applies what React does with it: <Navigate> of
\* ProtectedRoute, unmount of the route left, mount (and mount effect) of the
\* route entered.
EnterLogin(s) ==
    [s EXCEPT !.route = "/login", !.isValidating = TRUE,
              !.formUsername = "", !.password = "", !.error = "",
              !.showMFA = FALSE,
              !.reqs = Stale(s.reqs, {"checkSession"})]

EnterRoot(s) ==
    [s EXCEPT !.route = "/", !.isValidating = TRUE,
              !.formUsername = "", !.password = "", !.error = "",
              !.showMFA = FALSE,
              !.reqs = Add(Stale(s.reqs, LoginHandlers), "checkSession")]

Rendered(s) ==
    IF s.route = "/" /\ ProtectedRouteView(s.isValidating, s.isAuthenticated) = "navigate"
    THEN EnterLogin(s)
    ELSE s

Commit(s0, l) ==
    LET s == Rendered(s0) IN
    /\ route' = s.route
    /\ isAuthenticated' = s.isAuthenticated
    /\ username' = s.username
    /\ isValidating' = s.isValidating
    /\ formUsername' = s.formUsername
    /\ password' = s.password
    /\ error' = s.error
    /\ showMFA' = s.showMFA
    /\ reqs' = s.reqs
    /\ mainPageShown' =
          (s.route = "/"
             /\ ProtectedRouteView(s.isValidating, s.isAuthenticated) = "children")
    /\ last' = l
    /\ UNCHANGED <<formVars, logVars>>

Cur == [route |-> route, isAuthenticated |-> isAuthenticated,
        username |-> username, isValidating |-> isValidating,
        formUsername |-> formUsername, password |-> password,
        error |-> error, showMFA |-> showMFA, reqs |-> reqs]

\* ---- the last handler that ran (history) ----------------------------------
\* op: what ran; from: the function; resp: the response handled; live: whether
\* the awaiting component was still mounted; pre: isAuthenticated and showMFA
\* before it ran; sent: the request it issued; thrown: an error escaped it
NoResp == Resp("none", FALSE, Null, "")
NoSent == [endpoint |-> "none", body |-> <<>>]
Sent(ep, b) == [endpoint |-> ep, body |-> b]
Pre == [isAuthenticated |-> isAuthenticated, showMFA |-> showMFA]
Last(op, from, resp, live, sent) ==
    [op |-> op, from |-> from, resp |-> resp, live |-> live, pre |-> Pre,
     sent |-> sent, thrown |-> FALSE]

\* ---- main page: submissions in flight, history ----------------------------
\* subs[live]: submissions of handleSubmit in flight; live: issued by the
\* MainPage instance that is mounted now
NoSubs == [live \in BOOLEAN |-> 0]
\* the last form handler that ran: op; the response it handled; live; the
\* FormData it built; the toggle and the loading flag before it ran
NoSubmitResp == [type |-> "none", status |-> "none", statusText |-> "none",
                 body |-> [name |-> "none", error |-> <<>>]]
FormEvent(op, resp, live, pl) ==
    [op |-> op, resp |-> resp, live |-> live, payload |-> pl,
     pre |-> [useDirectInput |-> useDirectInput, isLoading |-> isLoading]]
NoFormEvent ==
    [op |-> "none", resp |-> NoSubmitResp, live |-> TRUE, payload |-> <<>>,
     pre |-> [useDirectInput |-> FALSE, isLoading |-> FALSE]]

\* ---- main page: log stream ------------------------------------------------
\* entries of the Log interface that the backend emits, and one whose message
\* is the empty string
LogEntries ==
    {[target |-> "device", level |-> "info", message |-> "m1"],
     [target |-> "device", level |-> "error", message |-> "m2"]}
NoMessage == [target |-> "device", level |-> "info", message |-> ""]
\* event.data of a message event: the JSON of an object, the JSON text
\* "null", or text that is not JSON
LogEvents ==
    {[kind |-> "object", value |-> e] : e \in LogEntries \cup {NoMessage}}
       \cup {[kind |-> "null", value |-> NoMessage],
             [kind |-> "malformed", value |-> NoMessage]}
ParseError == "Error parsing log data"
StreamError == "EventSource error occurred"

onmessage_clearsOnError(ev, lg, err) ==
    IF ev.kind # "object"
    THEN [logs |-> <<>>, error |-> ParseError, close |-> FALSE]
    ELSE IF Truthy(ev.value.message)
    THEN [logs |-> Append(lg, ev.value), error |-> err, close |-> FALSE]
    ELSE [logs |-> lg, error |-> err, close |-> FALSE]

onmessage_clearsError(ev, lg, err) ==
    IF ev.kind # "object"
    THEN [logs |-> lg, error |-> ParseError, close |-> FALSE]
    ELSE IF Truthy(ev.value.message)
    THEN [logs |-> Append(lg, ev.value), error |-> Null, close |-> FALSE]
    ELSE [logs |-> lg, error |-> err, close |-> FALSE]

onmessage_prepends(ev, lg, err) ==
    IF ev.kind # "object"
    THEN [logs |-> lg, error |-> ParseError, close |-> FALSE]
    ELSE IF Truthy(ev.value.message)
    THEN [logs |-> <<ev.value>> \o lg, error |-> err, close |-> FALSE]
    ELSE [logs |-> lg, error |-> err, close |-> FALSE]

\* eventSourceRef.current.onmessage: JSON.parse throws on text that is not
\* JSON, and reading .message of null throws; both land in the catch. close:
\* whether the handler closes the EventSource (it never does)
onmessage(ev, lg, err) ==
    IF ev.kind = "malformed"
    THEN [logs |-> lg, error |-> ParseError, close |-> FALSE]
    ELSE IF ev.kind = "null"
    THEN [logs |-> lg, error |-> ParseError, close |-> FALSE]
    ELSE IF Truthy(ev.value.message)
    THEN [logs |-> Append(lg, ev.value), error |-> err, close |-> FALSE]
    ELSE [logs |-> lg, error |-> err, close |-> FALSE]

\* eventSourceRef.current.onerror; n: the open EventSource objects
onerror(err, n) ==
    [error |-> StreamError, streams |-> n]

\* the mount effect: new EventSource("/api/logs")
mountEffect(n) == n + 1

unmountCleanup_leak(n) == n

\* the effect's cleanup: eventSourceRef.current?.close()
unmountCleanup(n) == n - 1

\* the last log-stream step: op; the message event handled; logs, error and
\* open EventSource objects before it
NoLogData == [kind |-> "none", value |-> NoMessage]
LogEvent(op, ev) ==
    [op |-> op, event |-> ev,
     pre |-> [logs |-> logs, error |-> logError, streams |-> streams]]

\* ---- initial state: the page has just loaded ------------------------------
\* AuthProvider's two mount effects have issued their validation requests and,
\* on "/", ProtectedRoute's mount effect its own.
MountRequests(r) ==
    LET b == Add(Add(NoReqs, "validateSession"), "checkAuth")
    IN  IF r = "/" THEN Add(b, "checkSession") ELSE b

\* SpecAuth: a page load on "/" or on "/login"; the main page is not mounted
\* yet and its variables keep their useState initial values.
AuthInit ==
    /\ route \in {"/", "/login"}
    /\ isAuthenticated = FALSE
    /\ username = Null
    /\ isValidating = TRUE
    /\ mainPageShown = FALSE
    /\ formUsername = ""
    /\ password = ""
    /\ error = ""
    /\ showMFA = FALSE
    /\ reqs = MountRequests(route)
    /\ last = [op |-> "load", from |-> "load", resp |-> NoResp, live |-> TRUE,
               pre |-> [isAuthenticated |-> FALSE, showMFA |-> FALSE],
               sent |-> Sent("/auth/validate", <<>>), thrown |-> FALSE]
    /\ mounted = FALSE
    /\ operation = "addTags"
    /\ file = Null
    /\ imeis = ""
    /\ useDirectInput = FALSE
    /\ profileId = ""
    /\ tags = ""
    /\ thingKey = ""
    /\ result = [null |-> TRUE, error |-> <<>>, body |-> "none"]
    /\ isLoading = FALSE
    /\ subs = NoSubs
    /\ lastForm = NoFormEvent
    /\ logs = <<>>
    /\ logError = Null
    /\ streams = 0
    /\ lastLog = [op |-> "none", event |-> NoLogData,
                  pre |-> [logs |-> <<>>, error |-> Null, streams |-> 0]]

\* ---- responses of GET /auth/validate --------------------------------------
ValidateSessionResponse ==
    \E resp \in ValidateResponses :
        /\ reqs[<<"validateSession", TRUE>>] > 0
        /\ LET st == validateSession(resp, isAuthenticated, username) IN
           Commit([Cur EXCEPT !.isAuthenticated = st.isAuthenticated,
                              !.username = st.username,
                              !.reqs = Remove(reqs, "validateSession", TRUE)],
                  Last("validate", "validateSession", resp, TRUE, NoSent))

CheckAuthResponse ==
    \E resp \in ValidateResponses :
        /\ reqs[<<"checkAuth", TRUE>>] > 0
        /\ LET st == checkAuth(resp, isAuthenticated, username) IN
           Commit([Cur EXCEPT !.isAuthenticated = st.isAuthenticated,
                              !.username = st.username,
                              !.reqs = Remove(reqs, "checkAuth", TRUE)],
                  Last("validate", "checkAuth", resp, TRUE, NoSent))

\* ProtectedRoute.checkSession: await validateSession(); setIsValidating(false)
\* (the setter of an unmounted instance changes nothing)
CheckSessionResponse ==
    \E resp \in ValidateResponses, live \in BOOLEAN :
        /\ reqs[<<"checkSession", live>>] > 0
        /\ LET st == validateSession(resp, isAuthenticated, username) IN
           Commit([Cur EXCEPT !.isAuthenticated = st.isAuthenticated,
                              !.username = st.username,
                              !.isValidating =
                                  IF live THEN checkSession(resp, @) ELSE @,
                              !.reqs = Remove(reqs, "checkSession", live)],
                  Last("validate", "checkSession", resp, live, NoSent))

\* ---- Login form -------------------------------------------------------------
SetUsername ==
    \E u \in Users :
        /\ route = "/login"
        /\ formUsername # u
        /\ Commit([Cur EXCEPT !.formUsername = u],
                  Last("type", "setUsername", NoResp, TRUE, NoSent))

SetPassword ==
    \E p \in Passwords :
        /\ route = "/login"
        /\ password # p
        /\ Commit([Cur EXCEPT !.password = p],
                  Last("type", "setPassword", NoResp, TRUE, NoSent))

\* <form onSubmit={handleSubmit}> with both inputs `required`:
\* setError(""); await login(username, password)
HandleSubmitClick ==
    /\ route = "/login"
    /\ formUsername # "" /\ password # ""
    /\ InFlight(reqs) < MaxReqs
    /\ Commit([Cur EXCEPT !.error = "", !.reqs = Add(reqs, "handleSubmit")],
              Last("click", "handleSubmit", NoResp, TRUE,
                   Sent(loginEndpoint(Undefined),
                        loginBody(formUsername, password, Undefined))))

\* <MFAPopup onSubmit={handleMFASubmit}>: await login(username, "", mfaCode)
HandleMFASubmitClick ==
    \E code \in MfaCodes :
        /\ route = "/login" /\ showMFA
        /\ InFlight(reqs) < MaxReqs
        /\ Commit([Cur EXCEPT !.reqs = Add(reqs, "handleMFASubmit")],
                  Last("click", "handleMFASubmit", NoResp, TRUE,
                       Sent(loginEndpoint(code),
                            loginBody(formUsername, "", code))))

\* <MFAPopup onCancel={() => setShowMFA(false)}>
CancelMFA ==
    /\ route = "/login" /\ showMFA
    /\ Commit([Cur EXCEPT !.showMFA = FALSE],
              Last("click", "onCancel", NoResp, TRUE, NoSent))

\* the response of a login() call: login() updates the store, then the
\* handler that awaited it runs (its setters do nothing once unmounted)
LoginResponse ==
    \E from \in LoginHandlers, live \in BOOLEAN, resp \in LoginResponses :
        /\ reqs[<<from, live>>] > 0
        /\ LET lr == login(resp, isAuthenticated, username)
               h  == IF from = "handleSubmit"
                     THEN handleSubmit(lr, showMFA, error)
                     ELSE handleMFASubmit(lr, showMFA, error)
               s1 == [Cur EXCEPT !.isAuthenticated = lr.isAuthenticated,
                                 !.username = lr.username,
                                 !.showMFA = IF live THEN h.showMFA ELSE @,
                                 !.error = IF live THEN h.error ELSE @,
                                 !.reqs = Remove(reqs, from, live)]
               s2 == IF h.navigate /\ route = "/login" THEN EnterRoot(s1) ELSE s1
           IN  Commit(s2, Last("login", from, resp, live, NoSent))

\* ---- Navigation -------------------------------------------------------------
\* <Link to="/login"> is rendered while the store is not authenticated
ClickLoginLink ==
    /\ ~isAuthenticated /\ route = "/"
    /\ Commit(EnterLogin(Cur), Last("click", "link", NoResp, TRUE, NoSent))

\* <UserInfo> (Logout button) is rendered while the store is authenticated
LogoutClick ==
    /\ isAuthenticated
    /\ InFlight(reqs) < MaxReqs
    /\ Commit([Cur EXCEPT !.reqs = Add(reqs, "logout")],
              Last("click", "logout", NoResp, TRUE, Sent("/auth/logout", <<>>)))

LogoutResponse ==
    \E resp \in LogoutResponses :
        /\ reqs[<<"logout", TRUE>>] > 0
        /\ LET st == logout(resp, isAuthenticated, username) IN
           Commit([Cur EXCEPT !.isAuthenticated = st.isAuthenticated,
                              !.username = st.username,
                              !.reqs = Remove(reqs, "logout", TRUE)],
                  [Last("logout", "logout", resp, TRUE, NoSent)
                      EXCEPT !.thrown = st.thrown])

AuthNext ==
    \/ ValidateSessionResponse
    \/ CheckAuthResponse
    \/ CheckSessionResponse
    \/ SetUsername
    \/ SetPassword
    \/ HandleSubmitClick
    \/ HandleMFASubmitClick
    \/ CancelMFA
    \/ LoginResponse
    \/ ClickLoginLink
    \/ LogoutClick
    \/ LogoutResponse

SpecAuth == AuthInit /\ [][AuthNext]_vars

\* every /auth/validate request of ProtectedRoute settles: its response
\* arrives or its promise is rejected
SpecAuthFair == SpecAuth /\ WF_vars(CheckSessionResponse)

\* =========================================================================
\*  Main page: operation form and submission
\* =========================================================================
Operations == {"addSettings", "applyProfile", "addTags", "deleteTags",
               "changeDef", "undeploy", "deleteThingsKeys", "deleteThingsTags"}
imeiOnlyOperations == {"addTags", "deleteTags", "undeploy", "deleteThingsKeys"}
TagOperations == {"addTags", "deleteTags", "deleteThingsTags"}

Files == {"devices.csv"}
ImeiTexts == {"356938035643809"}
\* a display name of the lookup table typed as it is shown, and an identifier
ProfileIds == {"X", "profile-1"}
TagTexts == {"a, b ,b,"}
ThingKeys == {"def-1"}

\* ---- what is rendered ------------------------------------------------------
DirectInputOffered(op) == op \in imeiOnlyOperations
ImeisShown(op, udi) == udi /\ op \in imeiOnlyOperations
FileInputShown(op, udi) == ~(udi /\ op \in imeiOnlyOperations)
ProfileShown(op) == op = "applyProfile"
TagsShown(op) == op \in TagOperations
ThingKeyShown(op) == op = "changeDef"

SubmitEnabled_always(loading) == TRUE
\* <button disabled={isLoading}>
SubmitEnabled(loading) == ~loading
\* <Spinner isLoading={isLoading} />
SpinnerShown(loading) == loading

\* ---- useEffect on [operation] -----------------------------------------------
operationEffect_keeps(op, udi) == udi
operationEffect(op, udi) == IF op \notin imeiOnlyOperations THEN FALSE ELSE udi

\* ---- handleSubmit: the FormData built ----------------------------------------
BoolToString(b) == IF b THEN "true" ELSE "false"
Field(k, v, present) == IF present THEN k :> v ELSE <<>>

FormData_fileFirst(op, f, im, udi, pid, tg, tk) ==
    (IF f # Null THEN "file" :> f
     ELSE IF udi /\ op \in imeiOnlyOperations THEN "imeis" :> im
     ELSE <<>>)
      @@ ("operation" :> op)
      @@ ("useDirectInput" :> BoolToString(udi))
      @@ Field("profileId", pid, Truthy(pid))
      @@ Field("tags", tg, Truthy(tg))
      @@ Field("thingKey", tk, Truthy(tk))

FormData_alwaysImeis(op, f, im, udi, pid, tg, tk) ==
    ("imeis" :> im)
      @@ Field("file", f, ~(udi /\ op \in imeiOnlyOperations) /\ f # Null)
      @@ ("operation" :> op)
      @@ ("useDirectInput" :> BoolToString(udi))
      @@ Field("profileId", pid, Truthy(pid))
      @@ Field("tags", tg, Truthy(tg))
      @@ Field("thingKey", tk, Truthy(tk))

FormData(op, f, im, udi, pid, tg, tk) ==
    (IF udi /\ op \in imeiOnlyOperations THEN "imeis" :> im
     ELSE IF f # Null THEN "file" :> f
     ELSE <<>>)
      @@ ("operation" :> op)
      @@ ("useDirectInput" :> BoolToString(udi))
      @@ Field("profileId", pid, Truthy(pid))
      @@ Field("tags", tg, Truthy(tg))
      @@ Field("thingKey", tk, Truthy(tk))

\* ---- responses of POST /api/device-management -------------------------------
\* a JSON body is [name, error]: error is the message of an {error: ...} body
Bodies == {[name |-> "done", error |-> <<>>],
           [name |-> "failed", error |-> <<"No devices found">>]}
SubmitResponses ==
    {[type |-> "ok", status |-> "200", statusText |-> "OK", body |-> b] : b \in Bodies}
      \cup {[type |-> "status", status |-> "500",
             statusText |-> "Internal Server Error", body |-> [name |-> "none", error |-> <<>>]],
            [type |-> "status", status |-> "404",
             statusText |-> "Not Found", body |-> [name |-> "none", error |-> <<>>]],
            [type |-> "badjson", status |-> "200", statusText |-> "OK",
             body |-> [name |-> "none", error |-> <<>>]],
            [type |-> "reject", status |-> "none", statusText |-> "none",
             body |-> [name |-> "none", error |-> <<>>]]}
\* result: null, the JSON body, or {error: message}; a message is a sequence
\* of its parts
ResultNull == [null |-> TRUE, error |-> <<>>, body |-> "none"]
ResultError(msg) == [null |-> FALSE, error |-> msg, body |-> "none"]
ResultData(b) == [null |-> FALSE, error |-> b.error, body |-> b.name]

submitResult_uncaught(resp) ==
    IF resp.type = "ok" THEN ResultData(resp.body) ELSE ResultNull

\* the result handleSubmit stores once the response (or the rejection) is in
submitResult(resp) ==
    CASE resp.type = "ok"      -> ResultData(resp.body)
      [] resp.type = "status"  -> ResultError(<<"Server error">>)
      [] resp.type = "badjson" -> ResultError(<<"Unexpected token in JSON">>)
      [] OTHER                 -> ResultError(<<"Failed to fetch">>)

\* ---- SpecForm: the main page has been mounted under a validated session -----
FormInit ==
    /\ route = "/"
    /\ isAuthenticated = TRUE
    /\ username = "alice"
    /\ isValidating = FALSE
    /\ mainPageShown = TRUE
    /\ formUsername = ""
    /\ password = ""
    /\ error = ""
    /\ showMFA = FALSE
    /\ reqs = NoReqs
    /\ last = [op |-> "validate", from |-> "checkSession",
               resp |-> Resp("ok", FALSE, username, ""), live |-> TRUE,
               pre |-> [isAuthenticated |-> TRUE, showMFA |-> FALSE],
               sent |-> NoSent, thrown |-> FALSE]
    /\ mounted = TRUE
    /\ operation = "addTags"
    /\ file = Null
    /\ imeis = ""
    /\ useDirectInput = FALSE
    /\ profileId = ""
    /\ tags = ""
    /\ thingKey = ""
    /\ result = ResultNull
    /\ isLoading = FALSE
    /\ subs = NoSubs
    /\ lastForm = [NoFormEvent EXCEPT !.op = "mount"]
    /\ logs = <<>>
    /\ logError = Null
    /\ streams = mountEffect(0)
    /\ lastLog = [op |-> "mount", event |-> NoLogData,
                  pre |-> [logs |-> <<>>, error |-> Null, streams |-> 0]]

\* onClick={() => setOperation(op)}, then the effect on [operation], which
\* runs when the operation has changed
SetOperation ==
    \E op \in Operations :
        /\ mounted
        /\ operation' = op
        /\ useDirectInput' =
              IF op # operation THEN operationEffect(op, useDirectInput)
              ELSE useDirectInput
        /\ lastForm' = FormEvent("setOperation", NoSubmitResp, TRUE, <<>>)
        /\ UNCHANGED <<mounted, file, imeis, profileId, tags, thingKey, result,
                       isLoading, subs>>
        /\ UNCHANGED <<authVars, logVars>>

\* the "Use direct IMEI input" checkbox
SetUseDirectInput ==
    \E b \in BOOLEAN :
        /\ mounted /\ DirectInputOffered(operation)
        /\ b # useDirectInput
        /\ useDirectInput' = b
        /\ lastForm' = FormEvent("setUseDirectInput", NoSubmitResp, TRUE, <<>>)
        /\ UNCHANGED <<mounted, operation, file, imeis, profileId, tags,
                       thingKey, result, isLoading, subs>>
        /\ UNCHANGED <<authVars, logVars>>

SetImeis ==
    \E t \in ImeiTexts \cup {""} :
        /\ mounted /\ ImeisShown(operation, useDirectInput)
        /\ t # imeis
        /\ imeis' = t
        /\ lastForm' = FormEvent("setImeis", NoSubmitResp, TRUE, <<>>)
        /\ UNCHANGED <<mounted, operation, file, useDirectInput, profileId,
                       tags, thingKey, result, isLoading, subs>>
        /\ UNCHANGED <<authVars, logVars>>

\* handleFileChange: files[0] is a file, or nothing when the chooser was
\* cancelled
HandleFileChange ==
    \E f \in Files \cup {Null} :
        /\ mounted /\ FileInputShown(operation, useDirectInput)
        /\ f # file
        /\ file' = f
        /\ lastForm' = FormEvent("handleFileChange", NoSubmitResp, TRUE, <<>>)
        /\ UNCHANGED <<mounted, operation, imeis, useDirectInput, profileId,
                       tags, thingKey, result, isLoading, subs>>
        /\ UNCHANGED <<authVars, logVars>>

SetProfileId ==
    \E v \in ProfileIds \cup {""} :
        /\ mounted /\ ProfileShown(operation)
        /\ v # profileId
        /\ profileId' = v
        /\ lastForm' = FormEvent("setProfileId", NoSubmitResp, TRUE, <<>>)
        /\ UNCHANGED <<mounted, operation, file, imeis, useDirectInput, tags,
                       thingKey, result, isLoading, subs>>
        /\ UNCHANGED <<authVars, logVars>>

SetTags ==
    \E v \in TagTexts \cup {""} :
        /\ mounted /\ TagsShown(operation)
        /\ v # tags
        /\ tags' = v
        /\ lastForm' = FormEvent("setTags", NoSubmitResp, TRUE, <<>>)
        /\ UNCHANGED <<mounted, operation, file, imeis, useDirectInput,
                       profileId, thingKey, result, isLoading, subs>>
        /\ UNCHANGED <<authVars, logVars>>

SetThingKey ==
    \E v \in ThingKeys \cup {""} :
        /\ mounted /\ ThingKeyShown(operation)
        /\ v # thingKey
        /\ thingKey' = v
        /\ lastForm' = FormEvent("setThingKey", NoSubmitResp, TRUE, <<>>)
        /\ UNCHANGED <<mounted, operation, file, imeis, useDirectInput,
                       profileId, tags, result, isLoading, subs>>
        /\ UNCHANGED <<authVars, logVars>>

\* handleSubmit up to its await: setIsLoading(true), build the FormData, fetch
HandleSubmit ==
    /\ mounted /\ SubmitEnabled(isLoading)
    /\ subs[TRUE] + subs[FALSE] < MaxSubs
    /\ isLoading' = TRUE
    /\ subs' = [subs EXCEPT ![TRUE] = @ + 1]
    /\ lastForm' = FormEvent("submit", NoSubmitResp, TRUE,
                             FormData(operation, file, imeis, useDirectInput,
                                      profileId, tags, thingKey))
    /\ UNCHANGED <<mounted, operation, file, imeis, useDirectInput, profileId,
                   tags, thingKey, result>>
    /\ UNCHANGED <<authVars, logVars>>

\* handleSubmit after its await: setResult(...), finally setIsLoading(false);
\* the setters of an unmounted instance change nothing
SubmitResponse ==
    \E resp \in SubmitResponses, live \in BOOLEAN :
        /\ subs[live] > 0
        /\ subs' = [subs EXCEPT ![live] = @ - 1]
        /\ result' = IF live THEN submitResult(resp) ELSE result
        /\ isLoading' = IF live THEN FALSE ELSE isLoading
        /\ lastForm' = FormEvent("response", resp, live, <<>>)
        /\ UNCHANGED <<mounted, operation, file, imeis, useDirectInput,
                       profileId, tags, thingKey>>
        /\ UNCHANGED <<authVars, logVars>>

\* ProtectedRoute stops rendering its children: the instance and its state go
Unmount ==
    /\ mounted
    /\ mounted' = FALSE
    /\ operation' = "addTags"
    /\ file' = Null
    /\ imeis' = ""
    /\ useDirectInput' = FALSE
    /\ profileId' = ""
    /\ tags' = ""
    /\ thingKey' = ""
    /\ result' = ResultNull
    /\ isLoading' = FALSE
    /\ subs' = [subs EXCEPT ![TRUE] = 0, ![FALSE] = @ + subs[TRUE]]
    /\ lastForm' = FormEvent("unmount", NoSubmitResp, TRUE, <<>>)
    /\ logs' = <<>>
    /\ logError' = Null
    /\ streams' = unmountCleanup(streams)
    /\ lastLog' = LogEvent("unmount", NoLogData)
    /\ UNCHANGED authVars

\* ProtectedRoute renders its children again: a new instance, useState initial
\* values
Mount ==
    /\ ~mounted
    /\ mounted' = TRUE
    /\ lastForm' = FormEvent("mount", NoSubmitResp, TRUE, <<>>)
    /\ UNCHANGED <<operation, file, imeis, useDirectInput, profileId, tags,
                   thingKey, result, isLoading, subs, logs, logError>>
    /\ streams' = mountEffect(streams)
    /\ lastLog' = LogEvent("mount", NoLogData)
    /\ UNCHANGED authVars

FormNext ==
    \/ SetOperation
    \/ SetUseDirectInput
    \/ SetImeis
    \/ HandleFileChange
    \/ SetProfileId
    \/ SetTags
    \/ SetThingKey
    \/ HandleSubmit
    \/ SubmitResponse
    \/ Unmount
    \/ Mount

SpecForm == FormInit /\ [][FormNext]_vars

\* ---- log stream steps --------------------------------------------------------
\* a message event of an open EventSource; the setters of an unmounted
\* instance change nothing
OnMessage ==
    \E ev \in LogEvents :
        LET r == onmessage(ev, logs, logError) IN
        /\ streams > 0
        /\ Len(r.logs) <= MaxLogs
        /\ logs' = IF mounted THEN r.logs ELSE logs
        /\ logError' = IF mounted THEN r.error ELSE logError
        /\ streams' = IF r.close THEN streams - 1 ELSE streams
        /\ lastLog' = LogEvent("message", ev)
        /\ UNCHANGED <<authVars, formVars>>

\* an error event of an open EventSource
OnError ==
    LET r == onerror(logError, streams) IN
    /\ streams > 0
    /\ logError' = IF mounted THEN r.error ELSE logError
    /\ streams' = r.streams
    /\ lastLog' = LogEvent("error", NoLogData)
    /\ UNCHANGED <<authVars, formVars, logs>>

LogNext ==
    \/ OnMessage
    \/ OnError
    \/ Unmount
    \/ Mount

\* ---- operations and submissions, every request issued is eventually settled
SubmitNext ==
    \/ SetOperation
    \/ HandleSubmit
    \/ SubmitResponse
    \/ Unmount
    \/ Mount

\* fetch settles: the response arrives or the promise is rejected
SpecSubmit == FormInit /\ [][SubmitNext]_vars /\ WF_vars(SubmitResponse)

\* the main page and its log stream, nothing submitted
SpecLogs == FormInit /\ [][LogNext]_vars

\* =========================================================================
\*  Properties
\* =========================================================================

\* C1: after setOperation to an operation outside imeiOnlyOperations the
\* direct-input toggle is off, whatever it and the operation were before; so
\* in every state useDirectInput implies that the active operation supports
\* direct input.
C1_ToggleResetOnSwitch ==
    /\ (lastForm.op = "setOperation" /\ operation \notin imeiOnlyOperations)
          => ~useDirectInput
    /\ useDirectInput => operation \in imeiOnlyOperations

\* the toggle was on and the switch to an operation without direct input ran
C1_Witness ==
    /\ lastForm.op = "setOperation"
    /\ lastForm.pre.useDirectInput
    /\ operation \notin imeiOnlyOperations

\* C2: a submission made with direct input enabled on an operation that
\* supports it carries the field imeis (the textarea content) and no field
\* file, also when a file was chosen earlier.
C2_DirectInputPayload ==
    (lastForm.op = "submit" /\ useDirectInput /\ operation \in imeiOnlyOperations)
       => /\ "imeis" \in DOMAIN lastForm.payload
          /\ lastForm.payload["imeis"] = imeis
          /\ "file" \notin DOMAIN lastForm.payload

\* such a submission, made while a file is chosen
C2_Witness ==
    /\ lastForm.op = "submit"
    /\ useDirectInput /\ operation \in imeiOnlyOperations
    /\ file # Null
    /\ imeis # ""

\* C3 as stated: a submission made without direct input carries the field
\* file and no field imeis, in every form state, no file chosen included.
C3_Original ==
    (lastForm.op = "submit" /\ ~(useDirectInput /\ operation \in imeiOnlyOperations))
       => /\ "file" \in DOMAIN lastForm.payload
          /\ "imeis" \notin DOMAIN lastForm.payload

\* C3 amended: a submission made without direct input never carries the field
\* imeis, and carries the field file (the chosen file) exactly when a file
\* has been chosen.
C3_FilePayload ==
    (lastForm.op = "submit" /\ ~(useDirectInput /\ operation \in imeiOnlyOperations))
       => /\ "imeis" \notin DOMAIN lastForm.payload
          /\ ("file" \in DOMAIN lastForm.payload) <=> (file # Null)
          /\ (file # Null => lastForm.payload["file"] = file)

\* a submission without direct input, with a file chosen and text left in the
\* textarea
C3_Witness ==
    /\ lastForm.op = "submit"
    /\ ~useDirectInput
    /\ file # Null
    /\ imeis # ""

\* C4: while a submission of the mounted form is in flight the loading
\* indicator is shown and the submit button is disabled, and at most one
\* submission of the form is in flight.
C4_OneSubmissionInFlight ==
    /\ subs[TRUE] <= 1
    /\ subs[TRUE] = 1 =>
          /\ isLoading
          /\ SpinnerShown(isLoading)
          /\ ~SubmitEnabled(isLoading)

\* a second submission, after the first one was answered
C4_Witness ==
    /\ lastForm.op = "submit"
    /\ subs[TRUE] = 1
    /\ ~result.null

\* C5: after a response with a non-success status the result is an error
\* object whose message holds the status code and the status text.
C5_Original ==
    (lastForm.op = "response" /\ lastForm.live /\ lastForm.resp.type = "status")
       => /\ ~result.null
          /\ \E i \in DOMAIN result.error : result.error[i] = lastForm.resp.status
          /\ \E i \in DOMAIN result.error : result.error[i] = lastForm.resp.statusText

\* C6: a login whose response is successful without an MFA requirement leaves
\* the store authenticated with the username of the response; a login whose
\* response requires MFA does not change isAuthenticated and, for the mounted
\* Login form's handleSubmit, shows the MFA popup.
C6_LoginOutcome ==
    (last.op = "login" /\ last.resp.type = "ok") =>
        IF ~last.resp.requireMFA
        THEN /\ isAuthenticated
             /\ username = last.resp.username
        ELSE /\ isAuthenticated = last.pre.isAuthenticated
             /\ (last.from = "handleSubmit" /\ last.live) => showMFA

\* the login form's request was answered "MFA required": popup up, store not
\* authenticated
C6_Witness ==
    /\ last.op = "login" /\ last.from = "handleSubmit" /\ last.live
    /\ last.resp.type = "ok" /\ last.resp.requireMFA
    /\ showMFA /\ ~isAuthenticated

\* C7: when logout has run the store is cleared, for every outcome of the
\* /auth/logout request, and no error has escaped logout.
C7_LogoutClears ==
    last.op = "logout" =>
        /\ ~isAuthenticated
        /\ username = Null
        /\ ~last.thrown

\* a logout of an authenticated session whose request was rejected
C7_Witness ==
    /\ last.op = "logout"
    /\ last.resp.type = "reject"
    /\ last.pre.isAuthenticated

\* C8 as stated: in the MFA step an accepted code authenticates the session
\* and closes the step; a rejected one (error status, rejection, MFA still
\* required) leaves the popup shown, an error message set and the session
\* not authenticated.
C8_Original ==
    (last.op = "login" /\ last.from = "handleMFASubmit" /\ last.live
       /\ last.pre.showMFA) =>
        IF last.resp.type = "ok" /\ ~last.resp.requireMFA
        THEN isAuthenticated /\ ~showMFA
        ELSE showMFA /\ error # "" /\ ~isAuthenticated

\* C9: a failed validate, login or MFA call (error status, rejection or a
\* body that is not JSON) leaves the store unauthenticated, whatever it was
\* before.
C9_FailureResets ==
    (last.op \in {"validate", "login"} /\ last.resp.type # "ok") =>
        /\ ~isAuthenticated
        /\ username = Null

\* a login answered with an error status while the store was authenticated
C9_Witness ==
    /\ last.op = "login"
    /\ last.resp.type = "status"
    /\ last.pre.isAuthenticated
    /\ ~isAuthenticated

\* C10: the main page is shown only on "/", with the store authenticated and
\* the route's validation finished; on load the route is validating, nothing
\* is shown yet and the validation requests are in flight.
C10_MainPageGated ==
    /\ mainPageShown => (route = "/" /\ isAuthenticated /\ ~isValidating)
    /\ last.op = "load" =>
          /\ isValidating /\ ~mainPageShown
          /\ reqs[<<"validateSession", TRUE>>] = 1
          /\ route = "/" => reqs[<<"checkSession", TRUE>>] = 1

\* the main page is shown after the route's validation succeeded
C10_Witness ==
    /\ mainPageShown
    /\ last.op = "validate" /\ last.from = "checkSession" /\ last.live

\* ---- tags: the text typed and the list the specification asks for --------
\* the characters of a tags text
TagChars(t) ==
    CASE t = "a, b ,b," -> <<"a", ",", " ", "b", " ", ",", "b", ",">>
      [] OTHER -> <<>>

\* split on commas
RECURSIVE SplitComma(_, _, _)
SplitComma(cs, i, cur) ==
    IF i > Len(cs) THEN <<cur>>
    ELSE IF cs[i] = "," THEN <<cur>> \o SplitComma(cs, i + 1, <<>>)
    ELSE SplitComma(cs, i + 1, Append(cur, cs[i]))

RECURSIVE TrimLeft(_)
TrimLeft(w) == IF w # <<>> /\ Head(w) = " " THEN TrimLeft(Tail(w)) ELSE w

RECURSIVE TrimRight(_)
TrimRight(w) ==
    IF w # <<>> /\ w[Len(w)] = " " THEN TrimRight(SubSeq(w, 1, Len(w) - 1))
    ELSE w

Trim(w) == TrimRight(TrimLeft(w))

\* split, trim each entry, drop the empty entries, order kept
normalizeTags(cs) ==
    LET parts == SplitComma(cs, 1, <<>>)
        trimmed == [i \in 1..Len(parts) |-> Trim(parts[i])]
    IN  SelectSeq(trimmed, LAMBDA w : w # <<>>)

\* the characters of the JSON text of a list of strings
RECURSIVE StringifyItems(_)
StringifyItems(l) ==
    IF l = <<>> THEN <<>>
    ELSE <<"\"">> \o Head(l) \o <<"\"">>
           \o (IF Len(l) > 1 THEN <<",">> ELSE <<>>)
           \o StringifyItems(Tail(l))

Stringify(l) == <<"[">> \o StringifyItems(l) \o <<"]">>

\* C11 as stated: a non-empty tags text is transmitted as the list got by
\* splitting it on commas, trimming each entry and dropping the empty ones,
\* order kept; "a, b ,b," is transmitted as ["a","b"].
C11_Original ==
    (lastForm.op = "submit" /\ tags # "") =>
        /\ "tags" \in DOMAIN lastForm.payload
        /\ TagChars(lastForm.payload["tags"])
              = Stringify(normalizeTags(TagChars(tags)))
        /\ tags = "a, b ,b," =>
              TagChars(lastForm.payload["tags"])
                 = Stringify(<< <<"a">>, <<"b">> >>)

\* ---- profile and thing definition: the lookup tables ----------------------
\* display name -> backend identifier
ProfileLookup == [n \in {"X"} |-> "profile-1"]
ThingDefLookup == [n \in {"Definition A"} |-> "def-1"]
Range(f) == {f[x] : x \in DOMAIN f}

\* C12 as stated: the profile and thing-definition values of a submitted
\* payload are backend identifiers of the lookup tables; a value the tables
\* do not map to is never transmitted.
C12_Original ==
    lastForm.op = "submit" =>
        /\ "profileId" \in DOMAIN lastForm.payload
              => lastForm.payload["profileId"] \in Range(ProfileLookup)
        /\ "thingKey" \in DOMAIN lastForm.payload
              => lastForm.payload["thingKey"] \in Range(ThingDefLookup)

\* C13: a message event whose data is not JSON sets the error indicator and
\* nothing else: the logs are what they were, the EventSource stays open; and
\* an event carrying a log entry is appended whatever the error indicator
\* says.
C13_MalformedKeepsLogs ==
    /\ (lastLog.op = "message" /\ lastLog.event.kind = "malformed") =>
          /\ logError = ParseError
          /\ logs = lastLog.pre.logs
          /\ streams = lastLog.pre.streams
          /\ streams = 1
    /\ (lastLog.op = "message" /\ lastLog.event.kind = "object"
          /\ Truthy(lastLog.event.value.message)) =>
          /\ logs = Append(lastLog.pre.logs, lastLog.event.value)
          /\ logError = lastLog.pre.error

\* a malformed event arrived while entries were shown and no error was
C13_Witness ==
    /\ lastLog.op = "message" /\ lastLog.event.kind = "malformed"
    /\ lastLog.pre.logs # <<>>
    /\ lastLog.pre.error = Null
    /\ logError = ParseError

\* an event the handler accepts: the JSON of an object with a message
Accepted(ev) == ev.kind = "object" /\ Truthy(ev.value.message)

\* C14: while the page stays mounted every step leaves the logs as they are
\* or appends the entry of the accepted event at the end, once; so the logs
\* at any time are a prefix of the logs at every later time.
C14_AppendOnly ==
    [][(mounted /\ mounted') =>
          IF lastLog'.op = "message" /\ Accepted(lastLog'.event)
          THEN logs' = Append(logs, lastLog'.event.value)
          ELSE logs' = logs]_vars

\* two different entries are shown, in the order they arrived
C14_Witness ==
    /\ lastLog.op = "message" /\ Accepted(lastLog.event)
    /\ Len(logs) >= 2
    /\ logs[1] # logs[2]
    /\ logs[Len(logs)] = lastLog.event.value

\* C19: while the main page is mounted exactly one EventSource is open; when
\* it is not, none is and neither logs nor error indicator hold anything; an
\* error event of the stream sets the error indicator only, closing and
\* opening nothing.
C19_OneStreamWhileMounted ==
    /\ mounted => streams = 1
    /\ ~mounted => (streams = 0 /\ logs = <<>> /\ logError = Null)
    /\ lastLog.op = "error" =>
          /\ logError = StreamError
          /\ logs = lastLog.pre.logs
          /\ streams = lastLog.pre.streams

\* the page was unmounted after entries and a stream error had been shown
C19_Witness ==
    /\ lastLog.op = "unmount"
    /\ lastLog.pre.logs # <<>>
    /\ lastLog.pre.error = StreamError
    /\ lastLog.pre.streams = 1
    /\ streams = 0

\* ---- the operation catalog of the specification ----------------------------
CatalogOperations == Operations \cup {"onboarding"}
\* the fields the catalog declares for an operation
DeclaredFields(op) ==
    (IF op \in {"addTags", "deleteTags", "deleteThingsTags", "onboarding"}
     THEN {"tags"} ELSE {})
      \cup (IF op \in {"applyProfile", "onboarding"} THEN {"profile"} ELSE {})
      \cup (IF op \in {"changeDef", "onboarding"}
            THEN {"thingDefinition"} ELSE {})
      \cup (IF op \in {"addTags", "deleteTags", "deleteThingsKeys",
                       "onboarding", "undeploy"}
            THEN {"directInput"} ELSE {})
\* the fields MainPage renders for an operation
RenderedFields(op) ==
    (IF TagsShown(op) THEN {"tags"} ELSE {})
      \cup (IF ProfileShown(op) THEN {"profile"} ELSE {})
      \cup (IF ThingKeyShown(op) THEN {"thingDefinition"} ELSE {})
      \cup (IF DirectInputOffered(op) THEN {"directInput"} ELSE {})

\* C15 as stated: every operation kind of the catalog, onboarding included,
\* can be selected on the mounted page and is rendered with exactly the fields
\* the catalog declares for it.
C15_Original ==
    mounted =>
        \A op \in CatalogOperations :
            /\ op \in Operations
            /\ RenderedFields(op) = DeclaredFields(op)

\* C16 as stated: a submitted payload carries profileId, tags or thingKey only
\* when the active operation has that field.
C16_Original ==
    lastForm.op = "submit" =>
        /\ "profileId" \in DOMAIN lastForm.payload => ProfileShown(operation)
        /\ "tags" \in DOMAIN lastForm.payload => TagsShown(operation)
        /\ "thingKey" \in DOMAIN lastForm.payload => ThingKeyShown(operation)

\* once the mounted form has handled the response of its submission the flag
\* is off, the button enabled and the result is the response JSON or an error
\* object with a message; while the flag is on, the submission that will
\* clear it is in flight
C17_Outcome ==
    /\ (lastForm.op = "response" /\ lastForm.live) =>
          /\ ~isLoading
          /\ SubmitEnabled(isLoading)
          /\ ~result.null
          /\ IF lastForm.resp.type = "ok"
             THEN result = ResultData(lastForm.resp.body)
             ELSE result.error # <<>> /\ result.body = "none"
    /\ (mounted /\ isLoading) => subs[TRUE] = 1

\* C17: every submission ends in a result that can be shown, whether the
\* request is rejected, answered with an error status, with a body that is
\* not JSON, or succeeds; and a loading flag that is on is eventually off,
\* with the submit button enabled again.
C17_SubmissionTerminates ==
    /\ []C17_Outcome
    /\ isLoading ~> (~isLoading /\ SubmitEnabled(isLoading))

\* a submission answered with a body that is not JSON has ended in an error
\* result
C17_Witness ==
    /\ lastForm.op = "response" /\ lastForm.live
    /\ lastForm.resp.type = "badjson"
    /\ lastForm.pre.isLoading
    /\ ~isLoading
    /\ result.error # <<>>

\* C18 as stated: every code submitted from the MFA popup, the empty string
\* included, is sent as POST /auth/mfa with the JSON body {username,
\* mfa_code}, never to /auth/token as a username/password login.
C18_Original ==
    (last.op = "click" /\ last.from = "handleMFASubmit") =>
        /\ last.sent.endpoint = "/auth/mfa"
        /\ DOMAIN last.sent.body = {"username", "mfa_code"}

\* C20: an unauthenticated store holds no username: every handler that
\* clears isAuthenticated clears username with it, and username is set only
\* together with isAuthenticated = true.
C20_NoUsernameUnlessAuthenticated ==
    ~isAuthenticated => username = Null

\* a logout has cleared a store that held a username
C20_Witness ==
    /\ last.op = "logout"
    /\ last.pre.isAuthenticated
    /\ ~isAuthenticated
    /\ username = Null

\* C21 as stated, for the validation calls issued on mount: when a logout has
\* just completed, the response of validateSession or checkAuth (both issued
\* once, when AuthProvider mounted, so before that logout) does not set
\* isAuthenticated back to true.
C21_Original ==
    [][(last.op = "logout" /\ last'.op = "validate"
          /\ last'.from \in {"validateSession", "checkAuth"})
         => ~isAuthenticated']_vars

\* on "/" the route is past its validation exactly when it shows the main
\* page; a response handled by the mounted route ends the validation, and
\* then the main page is shown or the route is "/login"
C22_Settled ==
    /\ (route = "/" /\ ~isValidating) => mainPageShown
    /\ (last.op = "validate" /\ last.from = "checkSession" /\ last.live) =>
          \/ route = "/" /\ ~isValidating /\ mainPageShown
          \/ route = "/login"

\* C22: the validation of the protected route ends for every outcome of
\* /auth/validate (ok, error status, rejection): a route that is validating
\* eventually shows the main page or has redirected to "/login".
C22_ValidationEnds ==
    /\ []C22_Settled
    /\ (route = "/" /\ isValidating) ~> (mainPageShown \/ route = "/login")

\* the route's validation was rejected by the network and the route has
\* redirected to "/login"
C22_Witness ==
    /\ last.op = "validate" /\ last.from = "checkSession" /\ last.live
    /\ last.resp.type = "reject"
    /\ route = "/login"
    /\ ~mainPageShown

\* C23: in every payload built by handleSubmit the useDirectInput field is
\* "true" exactly when the imeis field is in the payload, whatever the
\* operation, the toggle and the file are, also after a switch from an
\* operation with direct input to one without.
C23_ToggleMatchesImeis ==
    lastForm.op = "submit" =>
        /\ "useDirectInput" \in DOMAIN lastForm.payload
        /\ (lastForm.payload["useDirectInput"] = "true")
              <=> ("imeis" \in DOMAIN lastForm.payload)

\* identifiers were typed under direct input, the operation was switched to
\* one without direct input, and the form was submitted
C23_Witness ==
    /\ lastForm.op = "submit"
    /\ imeis # ""
    /\ operation \notin imeiOnlyOperations
    /\ lastForm.payload["useDirectInput"] = "false"
    /\ "imeis" \notin DOMAIN lastForm.payload

\* C24: for the mounted page, a log error indicator that is set stays set
\* through every later stream event, also through events that are appended
\* to the logs, and after a failure its text is that of this failure.
C24_ErrorSticky ==
    lastLog.op \in {"message", "error"} =>
        /\ lastLog.pre.error # Null => logError # Null
        /\ lastLog.op = "error" => logError = StreamError
        /\ (lastLog.op = "message" /\ lastLog.event.kind = "malformed")
              => logError = ParseError
        /\ (lastLog.op = "message" /\ Accepted(lastLog.event))
              => logError = lastLog.pre.error

\* an entry was appended while the indicator showed a parse failure, and the
\* indicator still shows it
C24_Witness ==
    /\ lastLog.op = "message" /\ Accepted(lastLog.event)
    /\ lastLog.pre.error = ParseError
    /\ logError = ParseError
    /\ Len(logs) = Len(lastLog.pre.logs) + 1

====
